---------------------------- MODULE Spec2Model ----------------------------
(***************************************************************************)
(* Model of the STARK Stylus verifier: BN254 field arithmetic, the         *)
(* Poseidon two-input hash, the Merkle path verifier and the contract      *)
(* entrypoints that wrap them.                                             *)
(*                                                                         *)
(* Machine words.  The source computes on 256-bit words (U256) with the    *)
(* 254-bit BN254 prime p, 2^256 / p = 5.29.  TLC's integers have 32 bits,  *)
(* so the model keeps the code of every operation and scales the two       *)
(* numbers together: a word has WORD_BITS = 9 bits and the modulus is 97,  *)
(* 2^9 / 97 = 5.28.  A word then holds as many multiples of p as in the    *)
(* source, and each overflow and wrap case of the source has its           *)
(* counterpart.  Both numbers are bounds of the model, not the program's   *)
(* values.                                                                 *)
(***************************************************************************)
EXTENDS Integers, Sequences, FiniteSets, TLC

(***************************************************************************)
(* Bounds of the model                                                     *)
(***************************************************************************)
\* longest sequence of leaves a tree is built from
MaxLeaves == 4
\* most verify_merkle_path calls in one run of the contract
MaxCalls == 2
\* longest input sequence handed to batch_poseidon
MaxBatch == 2
\* largest iteration count handed to benchmark_hash
MaxIter == 3

(***************************************************************************)
(* U256 words (alloy_primitives::U256, scaled)                             *)
(***************************************************************************)
\* bits of a machine word (256 in the source)
WORD_BITS == 9
WORD_MOD == 2 ^ WORD_BITS
Word == 0 .. (WORD_MOD - 1)

\* U256::overflowing_add: the wrapped sum and the carry out
overflowing_add(a, b) == <<(a + b) % WORD_MOD, (a + b) >= WORD_MOD>>

\* U256::wrapping_sub
wrapping_sub(a, b) == (a - b + WORD_MOD) % WORD_MOD

\* U256::mul_mod: double-width product reduced modulo m
mul_mod(a, b, m) == (a * b) % m

(***************************************************************************)
(* poseidon/field.rs                                                       *)
(***************************************************************************)
\* the field modulus (the 254-bit BN254 prime in the source)
BN254_PRIME == 97
Field == 0 .. (BN254_PRIME - 1)

\* the reduction of add with the comparison against the prime off by one
add_reduce_strict_compare(sum, overflow) ==
    IF overflow \/ sum > BN254_PRIME
    THEN wrapping_sub(sum, BN254_PRIME)
    ELSE sum

\* the reduction of add without a look at the carry out of the word
add_reduce_ignores_overflow(sum, overflow) ==
    IF sum >= BN254_PRIME
    THEN wrapping_sub(sum, BN254_PRIME)
    ELSE sum

\* the `if overflow || sum >= BN254_PRIME` statement of add
add_reduce(sum, overflow) ==
    IF overflow \/ sum >= BN254_PRIME
    THEN wrapping_sub(sum, BN254_PRIME)
    ELSE sum

\* `let (sum, overflow) = a.overflowing_add(b)`, then the reduction
add_of(r) == add_reduce(r[1], r[2])

add(a, b) == add_of(overflowing_add(a, b))

sub(a, b) ==
    IF a >= b
    THEN wrapping_sub(a, b)
    ELSE wrapping_sub(BN254_PRIME, wrapping_sub(b, a))

mul(a, b) == mul_mod(a, b, BN254_PRIME)

is_valid(a) == a < BN254_PRIME

reduce(a) == IF a >= BN254_PRIME THEN wrapping_sub(a, BN254_PRIME) ELSE a

(***************************************************************************)
(* poseidon/constants.rs: ROUND_CONSTANTS and MDS_MATRIX, imported by      *)
(* poseidon/mod.rs.  The tables follow the design document: 195 round      *)
(* constants and a 3 x 3 MDS matrix, all of them field elements.           *)
(***************************************************************************)
NUM_ROUND_CONSTANTS == 195

ROUND_CONSTANTS ==
    [i \in 0 .. (NUM_ROUND_CONSTANTS - 1) |-> (i * i + i + 3) % BN254_PRIME]

\* a Cauchy matrix over the field: M[i][j] = 1 / (i + j + 1) modulo 97
MDS_MATRIX ==
    [i \in 0 .. 2 |->
        [j \in 0 .. 2 |->
            CASE i + j = 0 -> 1
              [] i + j = 1 -> 49
              [] i + j = 2 -> 65
              [] i + j = 3 -> 73
              [] i + j = 4 -> 39]]

(***************************************************************************)
(* poseidon/mod.rs.  The permutation state [U256; 3] is a 3-tuple; TLA+    *)
(* tuples count from 1, so state[i] of the source is state[i + 1] here.    *)
(***************************************************************************)
T == 3
FULL_ROUNDS == 8
PARTIAL_ROUNDS == 57

\* x^5 as the source computes it: x2 = x * x, x4 = x2 * x2, x4 * x
sbox_x4(x2) == mul(x2, x2)

sbox(x) == mul(sbox_x4(mul(x, x)), x)

\* row i of the matrix product (i counted from 0 as in the source)
mds_row(state, i) ==
    add(add(add(0, mul(MDS_MATRIX[i][0], state[1])),
            mul(MDS_MATRIX[i][1], state[2])),
        mul(MDS_MATRIX[i][2], state[3]))

mds_multiply(state) == <<mds_row(state, 0), mds_row(state, 1), mds_row(state, 2)>>

\* the indices of a round that drops the `+ i`
rc_indices_no_offset(round_ctr) == <<round_ctr, round_ctr, round_ctr>>

\* the table indices `round_ctr + i`, i in 0..T, that one round reads
rc_indices(round_ctr) == <<round_ctr + 0, round_ctr + 1, round_ctr + 2>>

\* the "add round constants" loop shared by both kinds of round
add_constants_at(state, ix) ==
    <<add(state[1], ROUND_CONSTANTS[ix[1]]),
      add(state[2], ROUND_CONSTANTS[ix[2]]),
      add(state[3], ROUND_CONSTANTS[ix[3]])>>

add_round_constants(state, round_ctr) ==
    add_constants_at(state, rc_indices(round_ctr))

\* the S-box step of a full round: every element
sbox_all(state) == <<sbox(state[1]), sbox(state[2]), sbox(state[3])>>

\* the S-box step of a partial round: the first element only
sbox_first(state) == <<sbox(state[1]), state[2], state[3]>>

full_round(state, round_ctr) ==
    mds_multiply(sbox_all(add_round_constants(state, round_ctr)))

partial_round(state, round_ctr) ==
    mds_multiply(sbox_first(add_round_constants(state, round_ctr)))

\* One `for _ in 0..n` loop of hash_two.  The loop's variables travel as one
\* tuple lv = <<state, round_ctr, rounds left>>, so that each round is computed
\* before the next iteration starts; the result is <<state, round_ctr>> at
\* loop exit.
RECURSIVE full_rounds_loop(_)
full_rounds_loop(lv) ==
    IF lv[3] = 0 THEN <<lv[1], lv[2]>>
    ELSE full_rounds_loop(<<full_round(lv[1], lv[2]), lv[2] + T, lv[3] - 1>>)

RECURSIVE partial_rounds_loop(_)
partial_rounds_loop(lv) ==
    IF lv[3] = 0 THEN <<lv[1], lv[2]>>
    ELSE partial_rounds_loop(<<partial_round(lv[1], lv[2]), lv[2] + T, lv[3] - 1>>)

half_full == FULL_ROUNDS \div 2

\* entering the next loop with the state and cursor the last one left
enter_loop(l, n) == <<l[1], l[2], n>>

\* `state[0]` of the state the last loop left
output_of(l) == l[1][1]

hash_two(a, b) ==
    output_of(
        full_rounds_loop(enter_loop(
            partial_rounds_loop(enter_loop(
                full_rounds_loop(<<<<0, a, b>>, 0, half_full>>),
                PARTIAL_ROUNDS)),
            half_full)))

(***************************************************************************)
(* merkle.rs.  Slices are sequences; element i of a slice is element i + 1 *)
(* of the sequence.                                                        *)
(***************************************************************************)

\* the loop body of verify without a look at the direction bit
parent_of_ignores_side(current, sibling, is_right) ==
    hash_two(current, sibling)

\* the loop body of verify: the parent of `current` and its sibling
parent_of(current, sibling, is_right) ==
    IF is_right
    THEN hash_two(sibling, current)
    ELSE hash_two(current, sibling)

\* the `for (sibling, is_right) in path.iter().zip(indices.iter())` loop of
\* verify; lv = <<current, position of the next pair>>
RECURSIVE walk_up(_, _, _)
walk_up(lv, path, indices) ==
    IF lv[2] > Len(path) \/ lv[2] > Len(indices) THEN lv[1]
    ELSE walk_up(<<parent_of(lv[1], path[lv[2]], indices[lv[2]]), lv[2] + 1>>,
                 path, indices)

\* verify without its check of the two lengths
verify_no_length_check(root, leaf, path, indices) ==
    IF path = <<>> THEN leaf = root
    ELSE walk_up(<<leaf, 1>>, path, indices) = root

verify(root, leaf, path, indices) ==
    IF Len(path) # Len(indices) THEN FALSE
    ELSE IF path = <<>> THEN leaf = root
    ELSE walk_up(<<leaf, 1>>, path, indices) = root

\* `chunk[0]` and `if chunk.len() > 1 { chunk[1] } else { chunk[0] }` of the
\* chunk starting at position at
chunk_left(current_level, at) == current_level[at]

\* an odd level padded with zero in place of its last element
chunk_right_zero_padded(current_level, at) ==
    IF at + 1 <= Len(current_level)
    THEN current_level[at + 1]
    ELSE 0

chunk_right(current_level, at) ==
    IF at + 1 <= Len(current_level)
    THEN current_level[at + 1]
    ELSE current_level[at]

\* the `for chunk in current_level.chunks(2)` loop; lv = <<next_level, first
\* position of the next chunk>>
RECURSIVE chunks_loop(_, _)
chunks_loop(lv, current_level) ==
    IF lv[2] > Len(current_level) THEN lv[1]
    ELSE chunks_loop(<<Append(lv[1], hash_two(chunk_left(current_level, lv[2]),
                                              chunk_right(current_level, lv[2]))),
                       lv[2] + 2>>,
                     current_level)

next_level_of(current_level) == chunks_loop(<<<<>>, 1>>, current_level)

\* the `while current_level.len() > 1` loop of compute_root
RECURSIVE levels_loop(_)
levels_loop(current_level) ==
    IF Len(current_level) > 1
    THEN levels_loop(next_level_of(current_level))
    ELSE current_level[1]

compute_root(leaves) ==
    IF leaves = <<>> THEN 0
    ELSE IF Len(leaves) = 1 THEN leaves[1]
    ELSE levels_loop(leaves)

sibling_index_of(target_index) ==
    IF target_index % 2 = 0 THEN target_index + 1 ELSE target_index - 1

\* what the walk pushes on the path: the sibling, or the node itself when
\* it has none
pushed_sibling(current_level, target_index) ==
    IF sibling_index_of(target_index) < Len(current_level)
    THEN current_level[sibling_index_of(target_index) + 1]
    ELSE current_level[target_index + 1]

\* The proof walk of test_depth_8_tree, for any leaf position.
\* lv = <<path, indices, current_level, target_index>>, target_index counted
\* from 0 as in the source; the result is <<path, indices>>.
RECURSIVE build_proof_loop(_)
build_proof_loop(lv) ==
    IF Len(lv[3]) > 1
    THEN build_proof_loop(<<Append(lv[1], pushed_sibling(lv[3], lv[4])),
                            Append(lv[2], lv[4] % 2 = 1),
                            next_level_of(lv[3]),
                            lv[4] \div 2>>)
    ELSE <<lv[1], lv[2]>>

build_proof(leaves, target_index) ==
    build_proof_loop(<<<<>>, <<>>, leaves, target_index>>)

(***************************************************************************)
(* lib.rs: the entrypoints as functions of their arguments and the storage *)
(***************************************************************************)
poseidon_hash(a, b) == hash_two(a, b)

\* the pairs hashed in the opposite order
batch_step_swapped(out, a, b) == Append(out, hash_two(b, a))

\* `.map(|(a, b)| PoseidonHasher::hash_two(*a, *b))`, collected in order
batch_step(out, a, b) == Append(out, hash_two(a, b))

\* `a_values.iter().zip(b_values.iter())`: pairs are taken while both
\* sequences have an element left.  lv = <<output, position of the next pair>>
RECURSIVE batch_loop(_, _, _)
batch_loop(lv, a_values, b_values) ==
    IF lv[2] > Len(a_values) \/ lv[2] > Len(b_values) THEN lv[1]
    ELSE batch_loop(<<batch_step(lv[1], a_values[lv[2]], b_values[lv[2]]), lv[2] + 1>>,
                    a_values, b_values)

batch_poseidon(a_values, b_values) == batch_loop(<<<<>>, 1>>, a_values, b_values)

\* The `for _ in 1..iterations` loop of benchmark_hash.
\* lv = <<result, loop position, hash_two applications so far>>; the last
\* is history, the source does not count them.
RECURSIVE benchmark_loop(_, _, _)
benchmark_loop(lv, iterations, seed_b) ==
    IF lv[2] >= iterations THEN <<lv[1], lv[3]>>
    ELSE benchmark_loop(<<hash_two(lv[1], seed_b), lv[2] + 1, lv[3] + 1>>,
                        iterations, seed_b)

\* <<value returned, number of hash_two applications made>>
benchmark_run(iterations, seed_a, seed_b) ==
    benchmark_loop(<<hash_two(seed_a, seed_b), 1, 1>>, iterations, seed_b)

benchmark_hash(iterations, seed_a, seed_b) ==
    benchmark_run(iterations, seed_a, seed_b)[1]

\* the stores of a verify_merkle_path that counts accepted proofs only
verify_stores_count_accepted(root, result, count) ==
    <<root, result, IF result THEN count + 1 ELSE count>>

\* the stores of a verify_merkle_path that clears the root of a rejected proof
verify_stores_clear_on_reject(root, result, count) ==
    <<IF result THEN root ELSE 0, result, count + 1>>

\* What verify_merkle_path stores, given the result of verify and the count
\* read: <<last_verified_root, last_verification_result, verification_count>>.
\* The count is a U256 that one call raises by one; no run makes 2^256 calls,
\* so it is a natural number here.
verify_stores(root, result, count) == <<root, result, count + 1>>

(***************************************************************************)
(* State                                                                   *)
(***************************************************************************)
VARIABLES
    \* lib.rs, sol_storage! StarkVerifier
    last_verified_root,
    last_verification_result,
    verification_count,
    \* the most recent entrypoint call: [op, args, ret]
    call,
    \* history: number of verify_merkle_path calls made, and <<root, result>>
    \* of the most recent one
    n_verify,
    recent,
    \* field arithmetic under test: operands, operation applied, its result
    f_a, f_b, f_op, f_res,
    \* one hash_two invocation, round by round
    h_a, h_b,           \* its arguments
    state,              \* the permutation state
    round_ctr,          \* the cursor into ROUND_CONSTANTS
    pc,                 \* the loop hash_two is in
    loop_i,             \* iterations of that loop done
    reads,              \* history: the ROUND_CONSTANTS indices read, in order
    rounds,             \* history: the kinds of the rounds run, in order
    h_out,              \* the value returned
    \* a Merkle tree and proofs against it
    leaves,             \* the leaves the tree is built from
    m_root,             \* <<>>, or <<compute_root(leaves)>> once computed
    proof,              \* the proof verified: the arguments and the result
    tampered,           \* the same proof after one change, verified again
    \* a pure entrypoint under test: [op, args], and what it returned
    p_call, p_ret

contract_vars ==
    <<last_verified_root, last_verification_result, verification_count,
      call, n_verify, recent>>
field_vars == <<f_a, f_b, f_op, f_res>>
hash_vars == <<h_a, h_b, state, round_ctr, pc, loop_i, reads, rounds, h_out>>
merkle_vars == <<leaves, m_root, proof, tampered>>
pure_vars == <<p_call, p_ret>>
vars == <<contract_vars, field_vars, hash_vars, merkle_vars, pure_vars>>

NoCall == [op |-> "none", args |-> <<>>, ret |-> 0]

\* sol_storage! slots start out zeroed
ContractInit ==
    /\ last_verified_root = 0
    /\ last_verification_result = FALSE
    /\ verification_count = 0
    /\ call = NoCall
    /\ n_verify = 0
    /\ recent = <<0, FALSE>>

FieldIdle == f_a = 0 /\ f_b = 0 /\ f_op = "none" /\ f_res = 0

HashIdle ==
    /\ h_a = 0 /\ h_b = 0
    /\ state = <<0, 0, 0>>
    /\ round_ctr = 0
    /\ pc = "idle"
    /\ loop_i = 0
    /\ reads = <<>>
    /\ rounds = <<>>
    /\ h_out = 0

NoProof ==
    [how |-> "none", target |-> 0, leaf |-> 0, path |-> <<>>, indices |-> <<>>,
     result |-> FALSE]
NoTamper ==
    [kind |-> "none", pos |-> 0, leaf |-> 0, path |-> <<>>, indices |-> <<>>,
     result |-> FALSE]

MerkleIdle ==
    /\ leaves = <<>>
    /\ m_root = <<>>
    /\ proof = NoProof
    /\ tampered = NoTamper

NotReturned == [done |-> FALSE, value |-> 0, applications |-> 0]

PureIdle == p_call = NoCall /\ p_ret = NotReturned

(***************************************************************************)
(* The contract: any sequence of entrypoint calls                          *)
(***************************************************************************)
\* arguments of the calls: a leaf, its sibling, and roots that accept and
\* reject
CallVals == {3, 5}
CallRoots == {3, hash_two(3, 5)}
CallPaths == {<<>>, <<5>>}
CallIndices == {<<>>, <<FALSE>>, <<TRUE>>}
CallBatchA == {<<>>, <<3>>}
CallBatchB == {<<>>, <<5>>, <<5, 3>>}
CallIterations == {0, 1, 2}

Init == ContractInit /\ FieldIdle /\ HashIdle /\ MerkleIdle /\ PureIdle

Returned(op, args, ret) == [op |-> op, args |-> args, ret |-> ret]

PoseidonHash ==
    /\ \E a \in CallVals : \E b \in {5} :
          call' = Returned("poseidon_hash", <<a, b>>, poseidon_hash(a, b))
    /\ UNCHANGED <<last_verified_root, last_verification_result,
                   verification_count, n_verify, recent>>
    /\ UNCHANGED <<field_vars, hash_vars, merkle_vars, pure_vars>>

BatchPoseidon ==
    /\ \E a_values \in CallBatchA : \E b_values \in CallBatchB :
          call' = Returned("batch_poseidon", <<a_values, b_values>>,
                           batch_poseidon(a_values, b_values))
    /\ UNCHANGED <<last_verified_root, last_verification_result,
                   verification_count, n_verify, recent>>
    /\ UNCHANGED <<field_vars, hash_vars, merkle_vars, pure_vars>>

\* the body of verify_merkle_path after `let result = ...`
VerifyStores(args, result, stores) ==
    /\ last_verified_root' = stores[1]
    /\ last_verification_result' = stores[2]
    /\ verification_count' = stores[3]
    /\ call' = Returned("verify_merkle_path", args, result)
    /\ n_verify' = n_verify + 1
    /\ recent' = <<args[1], result>>

VerifyCall(args, result) ==
    VerifyStores(args, result, verify_stores(args[1], result, verification_count))

VerifyMerklePath ==
    /\ n_verify < MaxCalls
    /\ \E root \in CallRoots : \E leaf \in {3} :
       \E path \in CallPaths : \E indices \in CallIndices :
          VerifyCall(<<root, leaf, path, indices>>, verify(root, leaf, path, indices))
    /\ UNCHANGED <<field_vars, hash_vars, merkle_vars, pure_vars>>

GetLastResult ==
    /\ call' = Returned("get_last_result", <<>>,
                        <<last_verified_root, last_verification_result>>)
    /\ UNCHANGED <<last_verified_root, last_verification_result,
                   verification_count, n_verify, recent>>
    /\ UNCHANGED <<field_vars, hash_vars, merkle_vars, pure_vars>>

GetVerificationCount ==
    /\ call' = Returned("get_verification_count", <<>>, verification_count)
    /\ UNCHANGED <<last_verified_root, last_verification_result,
                   verification_count, n_verify, recent>>
    /\ UNCHANGED <<field_vars, hash_vars, merkle_vars, pure_vars>>

BenchmarkHash ==
    /\ \E iterations \in CallIterations :
          call' = Returned("benchmark_hash", <<iterations, 3, 5>>,
                           benchmark_hash(iterations, 3, 5))
    /\ UNCHANGED <<last_verified_root, last_verification_result,
                   verification_count, n_verify, recent>>
    /\ UNCHANGED <<field_vars, hash_vars, merkle_vars, pure_vars>>

Next ==
    \/ PoseidonHash
    \/ BatchPoseidon
    \/ VerifyMerklePath
    \/ GetLastResult
    \/ GetVerificationCount
    \/ BenchmarkHash
Spec == Init /\ [][Next]_vars

(***************************************************************************)
(* The pure entrypoints applied to drawn arguments                         *)
(***************************************************************************)
BatchVals == {3, 5}
BatchSeqs == UNION {[1 .. n -> BatchVals] : n \in 0 .. MaxBatch}
SeedVals == {3, 5}

PureCalls ==
    {[op |-> "batch_poseidon", args |-> <<a_values, b_values>>, ret |-> 0] :
        a_values \in BatchSeqs, b_values \in BatchSeqs}
    \cup
    {[op |-> "benchmark_hash", args |-> <<iterations, seed_a, seed_b>>, ret |-> 0] :
        iterations \in 0 .. MaxIter, seed_a \in SeedVals, seed_b \in SeedVals}

InitCalls ==
    /\ p_call \in PureCalls
    /\ p_ret = NotReturned
    /\ ContractInit /\ FieldIdle /\ HashIdle /\ MerkleIdle

RunBatchPoseidon ==
    /\ p_call.op = "batch_poseidon"
    /\ ~p_ret.done
    /\ p_ret' = [done |-> TRUE,
                 value |-> batch_poseidon(p_call.args[1], p_call.args[2]),
                 applications |-> 0]
    /\ UNCHANGED <<p_call, contract_vars, field_vars, hash_vars, merkle_vars>>

BenchmarkReturned(run) == [done |-> TRUE, value |-> run[1], applications |-> run[2]]

RunBenchmarkHash ==
    /\ p_call.op = "benchmark_hash"
    /\ ~p_ret.done
    /\ p_ret' = BenchmarkReturned(
                    benchmark_run(p_call.args[1], p_call.args[2], p_call.args[3]))
    /\ UNCHANGED <<p_call, contract_vars, field_vars, hash_vars, merkle_vars>>

NextCalls == RunBatchPoseidon \/ RunBenchmarkHash
SpecCalls == InitCalls /\ [][NextCalls]_vars

(***************************************************************************)
(* Field arithmetic applied to every pair of field elements                *)
(***************************************************************************)
InitField ==
    /\ f_a \in Field /\ f_b \in Field /\ f_op = "none" /\ f_res = 0
    /\ ContractInit /\ HashIdle /\ MerkleIdle /\ PureIdle

FieldAdd ==
    /\ f_op = "none"
    /\ f_op' = "add" /\ f_res' = add(f_a, f_b)
    /\ UNCHANGED <<f_a, f_b, contract_vars, hash_vars, merkle_vars, pure_vars>>

FieldSub ==
    /\ f_op = "none"
    /\ f_op' = "sub" /\ f_res' = sub(f_a, f_b)
    /\ UNCHANGED <<f_a, f_b, contract_vars, hash_vars, merkle_vars, pure_vars>>

FieldMul ==
    /\ f_op = "none"
    /\ f_op' = "mul" /\ f_res' = mul(f_a, f_b)
    /\ UNCHANGED <<f_a, f_b, contract_vars, hash_vars, merkle_vars, pure_vars>>

NextField == FieldAdd \/ FieldSub \/ FieldMul
SpecField == InitField /\ [][NextField]_vars

(***************************************************************************)
(* hash_two, one round per step                                            *)
(***************************************************************************)
\* arguments the hash is started on: small values, the ends of the field and
\* words that were never reduced
HashArgs == {0, 1, 2, BN254_PRIME - 1, BN254_PRIME, WORD_MOD - 1}

InitHash ==
    /\ h_a \in HashArgs /\ h_b \in HashArgs
    /\ state = <<0, h_a, h_b>>
    /\ round_ctr = 0
    /\ pc = "first_full"
    /\ loop_i = 0
    /\ reads = <<>>
    /\ rounds = <<>>
    /\ h_out = 0
    /\ ContractInit /\ FieldIdle /\ MerkleIdle /\ PureIdle

\* the body of a `for _ in 0..n` loop: one round, then the cursor moves on
RoundStep(at, n, kind) ==
    /\ pc = at
    /\ loop_i < n
    /\ state' = IF kind = "full"
                THEN full_round(state, round_ctr)
                ELSE partial_round(state, round_ctr)
    /\ reads' = reads \o rc_indices(round_ctr)
    /\ rounds' = Append(rounds, kind)
    /\ round_ctr' = round_ctr + T
    /\ loop_i' = loop_i + 1
    /\ UNCHANGED <<h_a, h_b, pc, h_out>>
    /\ UNCHANGED <<contract_vars, field_vars, merkle_vars, pure_vars>>

\* a loop runs out and the next statement takes over
LoopExit(at, n, to) ==
    /\ pc = at
    /\ loop_i = n
    /\ pc' = to
    /\ loop_i' = 0
    /\ UNCHANGED <<h_a, h_b, state, round_ctr, reads, rounds, h_out>>
    /\ UNCHANGED <<contract_vars, field_vars, merkle_vars, pure_vars>>

FirstFullRound == RoundStep("first_full", half_full, "full")
EnterPartial == LoopExit("first_full", half_full, "partial")
PartialRound == RoundStep("partial", PARTIAL_ROUNDS, "partial")
EnterSecondFull == LoopExit("partial", PARTIAL_ROUNDS, "second_full")
SecondFullRound == RoundStep("second_full", half_full, "full")

HashReturn ==
    /\ pc = "second_full"
    /\ loop_i = half_full
    /\ h_out' = state[1]
    /\ pc' = "done"
    /\ UNCHANGED <<h_a, h_b, state, round_ctr, loop_i, reads, rounds>>
    /\ UNCHANGED <<contract_vars, field_vars, merkle_vars, pure_vars>>

NextHash ==
    \/ FirstFullRound
    \/ EnterPartial
    \/ PartialRound
    \/ EnterSecondFull
    \/ SecondFullRound
    \/ HashReturn
SpecHash == InitHash /\ [][NextHash]_vars

(***************************************************************************)
(* hash_two on full-width words.  poseidon_hash hands its arguments to     *)
(* hash_two as they come, so either may be any word, reduced or not.  Each *)
(* argument in turn ranges over every word while the other is one of a few *)
(* words: the arguments meet the arithmetic one by one, each in its own    *)
(* add of the first round.                                                 *)
(***************************************************************************)
\* the other argument: a reduced word, the prime itself, the largest word
WordPartners == {1, BN254_PRIME, WORD_MOD - 1}

InitHashWords ==
    /\ \/ h_a \in Word /\ h_b \in WordPartners
       \/ h_a \in WordPartners /\ h_b \in Word
    /\ state = <<0, h_a, h_b>>
    /\ round_ctr = 0
    /\ pc = "first_full"
    /\ loop_i = 0
    /\ reads = <<>>
    /\ rounds = <<>>
    /\ h_out = 0
    /\ ContractInit /\ FieldIdle /\ MerkleIdle /\ PureIdle

SpecHashWords == InitHashWords /\ [][NextHash]_vars

(***************************************************************************)
(* Merkle trees: build a tree, verify proofs against its root, tamper      *)
(***************************************************************************)
LeafVals == {3, 5}

LeafSeqs == UNION {[1 .. n -> LeafVals] : n \in 1 .. MaxLeaves}

\* values a tampering caller substitutes: a field element and a word that
\* was never reduced
TamperVals == {7, BN254_PRIME + 3}

\* The hash evaluations <<left, right, output>> that one verify call makes,
\* in order (none when it returns before its loop).
\* lv = <<evaluations, current, position of the next pair>>
hashed_pair(current, sibling, is_right) ==
    IF is_right THEN <<sibling, current>> ELSE <<current, sibling>>

eval_record(pair, out) == <<pair[1], pair[2], out>>

eval_append(lv, pair, out) == <<Append(lv[1], eval_record(pair, out)), out, lv[3] + 1>>

eval_step(lv, pair) == eval_append(lv, pair, hash_two(pair[1], pair[2]))

RECURSIVE evals_loop(_, _, _)
evals_loop(lv, path, indices) ==
    IF lv[3] > Len(path) THEN lv[1]
    ELSE evals_loop(eval_step(lv, hashed_pair(lv[2], path[lv[3]], indices[lv[3]])),
                    path, indices)

verify_evals(leaf, path, indices) ==
    IF Len(path) # Len(indices) THEN <<>>
    ELSE evals_loop(<<<<>>, leaf, 1>>, path, indices)

\* The hash evaluations compute_root makes, of all levels, as a set.
\* lv = <<evaluations, current_level>>
level_evals(level, next) ==
    {<<chunk_left(level, 2 * c - 1), chunk_right(level, 2 * c - 1), next[c]>> :
        c \in 1 .. Len(next)}

level_step(evals, level, next) == <<evals \cup level_evals(level, next), next>>

RECURSIVE tree_evals_loop(_)
tree_evals_loop(lv) ==
    IF Len(lv[2]) > 1
    THEN tree_evals_loop(level_step(lv[1], lv[2], next_level_of(lv[2])))
    ELSE lv[1]

tree_evals(ls) == tree_evals_loop(<<{}, ls>>)

Range(seq) == {seq[k] : k \in 1 .. Len(seq)}

\* no two of the evaluations have the same output on different inputs
NoCollision(evals) ==
    \A t \in evals : \A u \in evals :
        t[3] = u[3] => (t[1] = u[1] /\ t[2] = u[2])

InitMerkle ==
    /\ leaves \in LeafSeqs
    /\ m_root = <<>>
    /\ proof = NoProof
    /\ tampered = NoTamper
    /\ ContractInit /\ FieldIdle /\ HashIdle /\ PureIdle

ComputeRoot ==
    /\ m_root = <<>>
    /\ m_root' = <<compute_root(leaves)>>
    /\ UNCHANGED <<leaves, proof, tampered>>
    /\ UNCHANGED <<contract_vars, field_vars, hash_vars, pure_vars>>

\* verify(root, leaf, path, indices) is called and its result kept
Verified(how, target, leaf, path, indices) ==
    [how |-> how, target |-> target, leaf |-> leaf, path |-> path,
     indices |-> indices,
     result |-> verify(m_root[1], leaf, path, indices)]

VerifiedBuilt(i, bp) == Verified("built", i, leaves[i + 1], bp[1], bp[2])

\* what is left of proof bp above level k, with the node `from` it starts at
VerifiedAbove(i, bp, k, from) ==
    Verified("truncated", 0, from,
             SubSeq(bp[1], k + 1, Len(bp[1])), SubSeq(bp[2], k + 1, Len(bp[2])))

TruncationsOf(i, bp, ev) ==
    {VerifiedAbove(i, bp, k, ev[k][3]) : k \in 1 .. Len(bp[1])}

LeafTruncations(i, bp) ==
    TruncationsOf(i, bp, verify_evals(leaves[i + 1], bp[1], bp[2]))

\* the proof for leaf i as the tree walk builds it
VerifyBuiltProof ==
    /\ m_root # <<>>
    /\ proof.how = "none"
    /\ \E i \in 0 .. (Len(leaves) - 1) :
          proof' = VerifiedBuilt(i, build_proof(leaves, i))
    /\ UNCHANGED <<leaves, m_root, tampered>>
    /\ UNCHANGED <<contract_vars, field_vars, hash_vars, pure_vars>>

\* the upper part of a built proof, presented with the node it starts from
VerifyTruncatedProof ==
    /\ m_root # <<>>
    /\ proof.how = "none"
    /\ \E i \in 0 .. (Len(leaves) - 1) :
          proof' \in LeafTruncations(i, build_proof(leaves, i))
    /\ UNCHANGED <<leaves, m_root, tampered>>
    /\ UNCHANGED <<contract_vars, field_vars, hash_vars, pure_vars>>

\* any caller-made arguments, the lengths of path and indices free
ArbPaths == {<<>>, <<5>>, <<5, 3>>}
ArbIndices == UNION {[1 .. n -> BOOLEAN] : n \in 0 .. 2}

VerifyArbitrary ==
    /\ m_root # <<>>
    /\ proof.how = "none"
    /\ \E leaf \in LeafVals : \E path \in ArbPaths : \E indices \in ArbIndices :
          proof' = Verified("arbitrary", 0, leaf, path, indices)
    /\ UNCHANGED <<leaves, m_root, tampered>>
    /\ UNCHANGED <<contract_vars, field_vars, hash_vars, pure_vars>>

\* the accepted proof with one change, verified again
Tampered(kind, pos, leaf, path, indices) ==
    [kind |-> kind, pos |-> pos, leaf |-> leaf, path |-> path,
     indices |-> indices,
     result |-> verify(m_root[1], leaf, path, indices)]

TamperSibling ==
    /\ proof.result
    /\ tampered.kind = "none"
    /\ \E k \in 1 .. Len(proof.path) : \E v \in TamperVals \ {proof.path[k]} :
          tampered' = Tampered("sibling", k, proof.leaf,
                               [proof.path EXCEPT ![k] = v], proof.indices)
    /\ UNCHANGED <<leaves, m_root, proof>>
    /\ UNCHANGED <<contract_vars, field_vars, hash_vars, pure_vars>>

TamperBit ==
    /\ proof.result
    /\ tampered.kind = "none"
    /\ \E k \in 1 .. Len(proof.indices) :
          tampered' = Tampered("bit", k, proof.leaf, proof.path,
                               [proof.indices EXCEPT ![k] = ~proof.indices[k]])
    /\ UNCHANGED <<leaves, m_root, proof>>
    /\ UNCHANGED <<contract_vars, field_vars, hash_vars, pure_vars>>

TamperLeaf ==
    /\ proof.result
    /\ tampered.kind = "none"
    /\ \E v \in TamperVals \ {proof.leaf} :
          tampered' = Tampered("leaf", 0, v, proof.path, proof.indices)
    /\ UNCHANGED <<leaves, m_root, proof>>
    /\ UNCHANGED <<contract_vars, field_vars, hash_vars, pure_vars>>

NextMerkle ==
    \/ ComputeRoot
    \/ VerifyBuiltProof
    \/ VerifyTruncatedProof
    \/ VerifyArbitrary
    \/ TamperSibling
    \/ TamperBit
    \/ TamperLeaf
SpecMerkle == InitMerkle /\ [][NextMerkle]_vars

(***************************************************************************)
(* Properties                                                              *)
(***************************************************************************)

\* C5: for all a, b in [0, p), add(a, b) = (a + b) mod p, sub(a, b) =
\* (a - b) mod p and mul(a, b) = (a * b) mod p, every result lies in [0, p),
\* and add reaches its result with at most one subtraction of p.
FieldOpsAreModular ==
    /\ f_op = "add" =>
          /\ f_res = (f_a + f_b) % BN254_PRIME
          /\ f_res \in {f_a + f_b, f_a + f_b - BN254_PRIME}
    /\ f_op = "sub" => f_res = (f_a - f_b + BN254_PRIME) % BN254_PRIME
    /\ f_op = "mul" => f_res = (f_a * f_b) % BN254_PRIME
    /\ f_op # "none" => f_res \in 0 .. (BN254_PRIME - 1)

\* the sum p - 1 + 2 was reduced to 1, as in test_add_with_reduction
FieldAddReduced ==
    /\ f_op = "add"
    /\ f_a = BN254_PRIME - 1
    /\ f_b = 2
    /\ f_res = 1

\* C10: a hash_two invocation starts from [0, a, b], runs 65 rounds in the
\* order 4 full, 57 partial, 4 full and then returns state[0]; round k reads
\* the round constants 3k, 3k+1, 3k+2, so the indices read are 0, 1, 2, ...
\* in increasing order, each once, 195 in all, and none is 195 or more.
HashRoundSchedule ==
    /\ Len(rounds) <= 65
    /\ \A k \in 1 .. Len(rounds) :
          rounds[k] = IF k <= 4 \/ k > 61 THEN "full" ELSE "partial"
    /\ Len(rounds) = 0 /\ pc # "idle" => state = <<0, h_a, h_b>>
    /\ Len(reads) = 3 * Len(rounds)
    /\ \A j \in 1 .. Len(reads) : reads[j] = j - 1
    /\ round_ctr = 3 * Len(rounds)
    /\ pc = "done" =>
          /\ Len(rounds) = 65
          /\ Len(reads) = 195
          /\ h_out = state[1]
          /\ h_out = hash_two(h_a, h_b)
    /\ pc = "first_full" => Len(rounds) = loop_i /\ loop_i <= 4
    /\ pc = "partial" => Len(rounds) = 4 + loop_i /\ loop_i <= 57
    /\ pc = "second_full" => Len(rounds) = 61 + loop_i /\ loop_i <= 4

\* a hash has returned after reading the last constant, index 194
HashReturned ==
    /\ pc = "done"
    /\ Len(reads) = 195
    /\ reads[195] = 194
    /\ rounds[5] = "partial"
    /\ rounds[62] = "full"

\* what verify is to compute, level by level: cur[0] is the leaf, cur[k] the
\* parent made of cur[k - 1] and the k-th sibling on the side its bit names
ExpectedCurrent(leaf, path, indices) ==
    LET cur[k \in 0 .. Len(path)] ==
            IF k = 0 THEN leaf
            ELSE IF indices[k]
                 THEN hash_two(path[k], cur[k - 1])
                 ELSE hash_two(cur[k - 1], path[k])
    IN  cur[Len(path)]

ExpectedVerify(root, leaf, path, indices) ==
    IF Len(path) # Len(indices) THEN FALSE
    ELSE ExpectedCurrent(leaf, path, indices) = root

\* C1: verify returns false when path and indices differ in length, and
\* otherwise (current = root), current starting as the leaf and becoming, pair
\* by pair from first to last, hash_two(sibling, current) when the bit is true
\* and hash_two(current, sibling) when it is false; (leaf = root) on an empty
\* path.
VerifyIsDirectedFold ==
    /\ (proof.how # "none" /\ tampered.kind = "none") =>
          proof.result =
              ExpectedVerify(m_root[1], proof.leaf, proof.path, proof.indices)
    /\ tampered.kind # "none" =>
          tampered.result =
              ExpectedVerify(m_root[1], tampered.leaf, tampered.path, tampered.indices)

\* a proof of two levels, right child first and left child second, accepted
TwoLevelProofAccepted ==
    /\ proof.result
    /\ Len(proof.path) = 2
    /\ proof.indices = <<TRUE, FALSE>>

\* C2: for every non-empty sequence of leaves, odd lengths included, and
\* every leaf position, the proof built by the level-by-level walk verifies
\* against compute_root(leaves).
BuiltProofsVerify ==
    proof.how = "built" => proof.result

\* the last leaf of a three-leaf tree, its own sibling on the first level,
\* is proven
OddLeafProven ==
    /\ proof.how = "built"
    /\ Len(leaves) = 3
    /\ proof.target = 2
    /\ proof.path[1] = proof.leaf
    /\ proof.indices = <<FALSE, TRUE>>
    /\ proof.result

ProofEvals == Range(verify_evals(proof.leaf, proof.path, proof.indices))
TamperedEvals == Range(verify_evals(tampered.leaf, tampered.path, tampered.indices))

\* C3: with no collision among the hash evaluations of the tree and of the
\* call, verify(compute_root(leaves), x, path, indices) returns true only for
\* an x that is one of the leaves.
VerifyAcceptsOnlyLeaves ==
    (proof.how # "none" /\ proof.result /\ proof.leaf \notin Range(leaves)) =>
        ~NoCollision(tree_evals(leaves) \cup ProofEvals)

\* C4 as stated: with no collision among the hash evaluations of the two
\* calls, an accepted proof with one sibling replaced, one direction bit
\* flipped or another leaf substituted is rejected.
TamperedProofRejected ==
    (tampered.kind # "none" /\ tampered.result) =>
        ~NoCollision(ProofEvals \cup TamperedEvals)

\* the sibling at a level of the accepted proof is the value it is hashed with
SelfSiblingAt(pos) ==
    verify_evals(proof.leaf, proof.path, proof.indices)[pos][1]
        = verify_evals(proof.leaf, proof.path, proof.indices)[pos][2]

\* C4 amended: the same, except that a flipped direction bit is only sure to
\* be rejected at a level where the sibling differs from the running value.
TamperedProofRejectedUnlessSelfSibling ==
    (tampered.kind # "none" /\ tampered.result) =>
        \/ tampered.kind = "bit" /\ SelfSiblingAt(tampered.pos)
        \/ ~NoCollision(ProofEvals \cup TamperedEvals)

\* a direction bit of an accepted two-level proof was flipped where sibling
\* and running value differ, no evaluations collide, and verify rejected
FlippedBitRejected ==
    /\ tampered.kind = "bit"
    /\ Len(proof.path) = 2
    /\ ~SelfSiblingAt(tampered.pos)
    /\ NoCollision(ProofEvals \cup TamperedEvals)
    /\ ~tampered.result

\* C6: every verify_merkle_path call, whatever it returns, leaves
\* verification_count one greater, no other entrypoint changes it, and
\* get_verification_count returns the number of verify_merkle_path calls made.
CounterCountsVerifyCalls ==
    /\ [][IF call'.op = "verify_merkle_path"
          THEN verification_count' = verification_count + 1
          ELSE verification_count' = verification_count]_vars
    /\ [](verification_count = n_verify)
    /\ [](call.op = "get_verification_count" => call.ret = n_verify)

\* the second call was counted although its path and indices differ in length
MalformedProofCounted ==
    /\ call.op = "verify_merkle_path"
    /\ Len(call.args[3]) # Len(call.args[4])
    /\ call.ret = FALSE
    /\ verification_count = 2

\* C7: get_last_result returns the root argument and the returned value of
\* the most recent verify_merkle_path call, (0, false) if there was none, and
\* only verify_merkle_path changes the two slots.
LastResultIsMostRecent ==
    /\ [][IF call'.op = "verify_merkle_path"
          THEN /\ last_verified_root' = call'.args[1]
               /\ last_verification_result' = call'.ret
          ELSE UNCHANGED <<last_verified_root, last_verification_result>>]_vars
    /\ [](<<last_verified_root, last_verification_result>> = recent)
    /\ [](n_verify = 0 => recent = <<0, FALSE>>)
    /\ [](call.op = "get_last_result" => call.ret = recent)

\* get_last_result returned the root of a rejected call that followed an
\* accepted one
RejectedRootReturned ==
    /\ call.op = "get_last_result"
    /\ n_verify = 2
    /\ call.ret = <<3, FALSE>>

Min(a, b) == IF a <= b THEN a ELSE b

\* C8 as stated: output[i] = hash_two(a_values[i], b_values[i]) for every i,
\* and the output has as many elements as a_values and as b_values.
BatchOnePerElement ==
    (p_call.op = "batch_poseidon" /\ p_ret.done) =>
        /\ Len(p_ret.value) = Len(p_call.args[1])
        /\ Len(p_ret.value) = Len(p_call.args[2])
        /\ \A k \in 1 .. Len(p_ret.value) :
              p_ret.value[k] = hash_two(p_call.args[1][k], p_call.args[2][k])

\* C8 amended: the output has as many elements as the shorter of the two
\* inputs (as both when they are equally long), and output[i] =
\* hash_two(a_values[i], b_values[i]) for each of them, in input order.
BatchOnePerPair ==
    (p_call.op = "batch_poseidon" /\ p_ret.done) =>
        /\ Len(p_ret.value) = Min(Len(p_call.args[1]), Len(p_call.args[2]))
        /\ \A k \in 1 .. Len(p_ret.value) :
              p_ret.value[k] = hash_two(p_call.args[1][k], p_call.args[2][k])

\* two different pairs were hashed, in order
BatchOfTwoReturned ==
    /\ p_call.op = "batch_poseidon"
    /\ p_ret.done
    /\ p_call.args[1] = <<3, 5>>
    /\ p_call.args[2] = <<5, 5>>
    /\ Len(p_ret.value) = 2
    /\ p_ret.value[1] # p_ret.value[2]

\* the chain benchmark_hash is to compute: link 1 is hash_two(seed_a, seed_b),
\* link k is hash_two(link k - 1, seed_b)
ChainLink(n, seed_a, seed_b) ==
    LET link[k \in 1 .. n] ==
            IF k = 1 THEN hash_two(seed_a, seed_b)
            ELSE hash_two(link[k - 1], seed_b)
    IN  link[n]

\* C9: for every iteration count, 0 and 1 included, benchmark_hash makes
\* exactly `iterations` hash_two applications, the first on (seed_a, seed_b),
\* each later one on (previous output, seed_b), and returns the last output.
BenchmarkAppliesNTimes ==
    (p_call.op = "benchmark_hash" /\ p_ret.done) =>
        /\ p_ret.applications = p_call.args[1]
        /\ p_call.args[1] >= 1 =>
              p_ret.value = ChainLink(p_call.args[1], p_call.args[2], p_call.args[3])

\* every round constant and every MDS entry is a field element
TablesReduced ==
    /\ \A i \in 0 .. (NUM_ROUND_CONSTANTS - 1) : ROUND_CONSTANTS[i] \in Field
    /\ \A i \in 0 .. 2 : \A j \in 0 .. 2 : MDS_MATRIX[i][j] \in Field

\* the add a round is about to make on element i of the state (counted from
\* 1) is congruent to the true sum modulo p
NextAddCongruent(i) ==
    add(state[i], ROUND_CONSTANTS[round_ctr + i - 1]) % BN254_PRIME
        = (state[i] + ROUND_CONSTANTS[round_ctr + i - 1]) % BN254_PRIME

\* C11: with every round constant and MDS entry in [0, p), for full-width
\* word arguments a, b, unreduced ones included, hash_two(a, b) returns a
\* value in [0, p) equal to hash_two(a mod p, b mod p); the wrapping add of a
\* state element, reduced or not, and a round constant is congruent to the
\* true sum modulo p; and every state element is in [0, p) once the first
\* round has run.
HashReducesUnreducedWords ==
    TablesReduced =>
        /\ (pc \in {"first_full", "partial", "second_full"}
                /\ round_ctr + T <= NUM_ROUND_CONSTANTS) =>
              \A i \in 1 .. T : NextAddCongruent(i)
        /\ Len(rounds) >= 1 => \A i \in 1 .. T : state[i] \in Field
        /\ Len(rounds) = 1 =>
              state = full_round(<<0, h_a % BN254_PRIME, h_b % BN254_PRIME>>, 0)
        /\ pc = "done" =>
              /\ h_out \in Field
              /\ h_out = hash_two(h_a % BN254_PRIME, h_b % BN254_PRIME)

\* a hash of the largest word and the prime itself has returned: the first
\* add of the largest word carried out of the word, and the value returned
\* is the field element that the reduced arguments hash to
UnreducedWordsHashed ==
    /\ TablesReduced
    /\ pc = "done"
    /\ h_a = WORD_MOD - 1
    /\ h_b = BN254_PRIME
    /\ overflowing_add(h_a, ROUND_CONSTANTS[1])[2]
    /\ h_out \in Field
    /\ h_out = hash_two(h_a % BN254_PRIME, 0)

=============================================================================
